---- MODULE Spec2Model ----
(***************************************************************************)
(* Model of src/image-processor.js, the concurrency-limited ImageProcessor *)
(* (the class that starts at line 200).                                    *)
(*                                                                         *)
(* Strings are sequences of one-character strings, so that lastIndexOf,    *)
(* replace, slice and the regular expressions of the source are computed   *)
(* and not assumed.  Indices are 0-based where the source's are.           *)
(*                                                                         *)
(* JavaScript runs one callback at a time: an action of this model is one  *)
(* I/O completion (or the construction of the object) together with every  *)
(* promise continuation it triggers before the next I/O completion.        *)
(***************************************************************************)
EXTENDS Integers, Sequences, FiniteSets, TLC

\* ------------------------------------------------------------------ bounds
MaxConcurrency == 2
MaxConvertedSize == 1
MaxFiles == 2

\* ------------------------------------------------------------- characters
SLASH == "/"
DOT == "."

Src == <<"s", "r", "c">>
Dist == <<"d", "i", "s", "t">>
SrcSlash == <<"s", "r", "c", "/">>
Out == <<"o", "u", "t">>
Webp == <<"w", "e", "b", "p">>
Avif == <<"a", "v", "i", "f">>
Png == <<"p", "n", "g">>
Jpg == <<"j", "p", "g">>

\* String.prototype.toLowerCase on the letters the model uses
LowerChar(c) ==
  CASE c = "P" -> "p"
    [] c = "N" -> "n"
    [] c = "G" -> "g"
    [] c = "J" -> "j"
    [] OTHER -> c

toLowerCase(s) == [i \in 1..Len(s) |-> LowerChar(s[i])]

SetMax(S) == CHOOSE x \in S : \A y \in S : y <= x
SetMin(S) == CHOOSE x \in S : \A y \in S : x <= y

\* String.prototype.lastIndexOf(c): 0-based, -1 when absent
lastIndexOf(s, c) ==
  LET idx == {i \in 1..Len(s) : s[i] = c}
  IN IF idx = {} THEN -1 ELSE SetMax(idx) - 1

\* String.prototype.indexOf(pat): 0-based first occurrence, -1 when absent
indexOf(s, pat) ==
  LET idx == {i \in 1..(Len(s) - Len(pat) + 1) :
                SubSeq(s, i, i + Len(pat) - 1) = pat}
  IN IF idx = {} THEN -1 ELSE SetMin(idx) - 1

\* String.prototype.replace(pat, rep) with a string pattern: first occurrence
replace(s, pat, rep) ==
  LET i == indexOf(s, pat)
  IN IF i = -1 THEN s
     ELSE SubSeq(s, 1, i) \o rep \o SubSeq(s, i + Len(pat) + 1, Len(s))

\* String.prototype.slice(0, end) for end >= 0
slice0(s, end) == SubSeq(s, 1, IF end < Len(s) THEN end ELSE Len(s))

startsWith(s, pre) == Len(s) >= Len(pre) /\ SubSeq(s, 1, Len(pre)) = pre
endsWith(s, suf) ==
  Len(s) >= Len(suf) /\ SubSeq(s, Len(s) - Len(suf) + 1, Len(s)) = suf

\* ------------------------------------------------------------ configuration
\* conversionFormats: a sequence of [ext, formats] in Object.keys order
\* the (sourceDirectory, outputDirectory) pairs a run may be configured with
DirectoryChoices ==
  { [sourceDirectory |-> Src, outputDirectory |-> Dist],
    [sourceDirectory |-> Src, outputDirectory |-> Out],
    [sourceDirectory |-> SrcSlash, outputDirectory |-> Dist] }

TwoKeyFormats ==
  << [ext |-> Png, formats |-> <<Webp, Avif>>],
     [ext |-> Jpg, formats |-> <<Webp>>] >>
OneKeyFormats == << [ext |-> Png, formats |-> <<Webp>>] >>

ConversionFormatsChoices == {TwoKeyFormats, OneKeyFormats}

keepMetadataKeys == {"exif", "iptc", "xmp", "orientation", "copyright", "rating"}

\* Object.keys(conversionFormats)
extensionsOf(cf) == [i \in 1..Len(cf) |-> cf[i].ext]

\* conversionFormats[extension]; <<>> stands for a key that is absent
formatSettingsOf(cf, ext) ==
  LET hit == {i \in 1..Len(cf) : cf[i].ext = ext}
  IN IF hit = {} THEN <<>> ELSE cf[CHOOSE i \in hit : TRUE].formats

Null == [isNull |-> TRUE]

\* #parseImagePath: /\/([^\/]+)\.(ext1|ext2)$/i
\* [^\/]+ reaches up to the final ".ext", so the "/" matched is the last one.
parseImagePath(cf, imagePath) ==
  LET exts == extensionsOf(cf)
      lastSlash == lastIndexOf(imagePath, SLASH)
      segment == SubSeq(imagePath, lastSlash + 2, Len(imagePath))
      hits == {i \in 1..Len(exts) :
                 /\ lastSlash >= 0
                 /\ Len(segment) > Len(exts[i]) + 1
                 /\ toLowerCase(SubSeq(segment, Len(segment) - Len(exts[i]) + 1,
                                       Len(segment))) = toLowerCase(exts[i])
                 /\ segment[Len(segment) - Len(exts[i])] = DOT}
  IN IF hits = {} THEN Null
     ELSE LET i == SetMin(hits)
          IN [isNull |-> FALSE,
              name |-> SubSeq(segment, 1, Len(segment) - Len(exts[i]) - 1),
              extension |-> toLowerCase(SubSeq(segment,
                              Len(segment) - Len(exts[i]) + 1, Len(segment)))]

\* #createOutputPath
createOutputPath(cfg, sourcePath, newFormat) ==
  LET lastDot == lastIndexOf(sourcePath, DOT)
      bs == lastIndexOf(sourcePath, "\\")
      fs == lastIndexOf(sourcePath, SLASH)
      lastSlash == IF fs > bs THEN fs ELSE bs
      replaced == replace(sourcePath, cfg.sourceDirectory, cfg.outputDirectory)
      outputPath == IF lastDot = -1 \/ lastSlash > lastDot
                    THEN replaced
                    ELSE slice0(replaced, lastDot + 1)
  IN outputPath \o <<DOT>> \o newFormat

\* ------------------------------------------------------------- source tree
\* The files the source tree may hold: path, byte size, embedded metadata
\* (a set of <<key, value>> pairs).
FileA == [path |-> Src \o <<"/", "a", ".", "p", "n", "g">>, size |-> 2,
          metadata |-> {<<"exif", 1>>, <<"width", 2>>}]
FileEmpty == [path |-> Src \o <<"/", "a", ".", "j", "p", "g">>, size |-> 0,
              metadata |-> {<<"orientation", 1>>}]
FileB == [path |-> Src \o <<"/", "s", "u", "b", "/", "b", ".", "p", "n", "g">>,
          size |-> 1, metadata |-> {}]
FileBrace == [path |-> Src \o <<"/", "a", ".", "{", "p", "n", "g", "}">>,
              size |-> 2, metadata |-> {}]

\* in the order the scanner lists them
CandidateFiles == <<FileEmpty, FileA, FileBrace, FileB>>
CandidateSet == {CandidateFiles[i] : i \in 1..Len(CandidateFiles)}

FileAt(tree, p) == CHOOSE f \in tree : f.path = p

\* #findTargetImages: globule.find(`${sourceDirectory}/**/*.{${extensions.join(",")}}`)
\* A brace list with one member is not expanded by the glob matcher and
\* stays the literal text "{ext}"; matching is case-sensitive and "*" does
\* not match a leading dot.  The matcher splits the pattern at runs of "/",
\* so a sourceDirectory written with a trailing "/" lists the same paths.
RECURSIVE stripTrailingSlashes(_)
stripTrailingSlashes(s) ==
  IF Len(s) > 0 /\ s[Len(s)] = SLASH
  THEN stripTrailingSlashes(SubSeq(s, 1, Len(s) - 1))
  ELSE s

globSuffixes(cf) ==
  LET exts == extensionsOf(cf)
  IN IF Len(exts) = 1
     THEN {<<DOT, "{">> \o exts[1] \o <<"}">>}
     ELSE {<<DOT>> \o exts[i] : i \in 1..Len(exts)}

globMatches(cfg, p) ==
  LET lastSlash == lastIndexOf(p, SLASH)
      segment == SubSeq(p, lastSlash + 2, Len(p))
  IN /\ startsWith(p, stripTrailingSlashes(cfg.sourceDirectory) \o <<SLASH>>)
     /\ \E suf \in globSuffixes(cfg.conversionFormats) :
          /\ endsWith(segment, suf)
          /\ Len(segment) > Len(suf)
          /\ segment[1] # DOT

findTargetImages(cfg, tree) ==
  LET hit(f) == f \in tree /\ globMatches(cfg, f.path)
      found == SelectSeq(CandidateFiles, hit)
  IN [i \in 1..Len(found) |-> found[i].path]

\* ------------------------------------------------------ directory ensurer
\* #ensureOutputDirectory: new RegExp(`^${sourceDirectory}/(.*/)?`), then
\* existsSync / mkdirSync(outputDir, {recursive: true}).  Directories are
\* kept with their trailing "/".  writable is whether mkdirSync succeeds.
\* #ensureOutputDirectory with mkdirSync failing on a directory that exists
\* (no existsSync test, no {recursive: true})
ensureOutputDirectoryFailsOnExisting(cfg, imagePath, existing, writable) ==
  LET prefix == cfg.sourceDirectory \o <<SLASH>>
      matched == startsWith(imagePath, prefix)
      lastSlash == lastIndexOf(imagePath, SLASH)
      subPath == IF lastSlash + 1 > Len(prefix)
                 THEN SubSeq(imagePath, Len(prefix) + 1, lastSlash + 1)
                 ELSE <<>>
      outputDir == cfg.outputDirectory \o <<SLASH>> \o subPath
      created == {SubSeq(outputDir, 1, j) :
                    j \in {n \in 1..Len(outputDir) : outputDir[n] = SLASH}}
  IN IF ~matched
     THEN [threw |-> TRUE, cause |-> "InvalidSourceTree", dirs |-> existing,
           outputDir |-> <<>>, existed |-> FALSE]
     ELSE IF writable /\ outputDir \notin existing
     THEN [threw |-> FALSE, cause |-> "none", dirs |-> existing \cup created,
           outputDir |-> outputDir, existed |-> FALSE]
     ELSE [threw |-> TRUE, cause |-> "DirectoryCreateError", dirs |-> existing,
           outputDir |-> outputDir, existed |-> outputDir \in existing]

\* #ensureOutputDirectory without the mkdirSync call of line 503
ensureOutputDirectoryNoMkdir(cfg, imagePath, existing, writable) ==
  LET prefix == cfg.sourceDirectory \o <<SLASH>>
      matched == startsWith(imagePath, prefix)
      lastSlash == lastIndexOf(imagePath, SLASH)
      subPath == IF lastSlash + 1 > Len(prefix)
                 THEN SubSeq(imagePath, Len(prefix) + 1, lastSlash + 1)
                 ELSE <<>>
      outputDir == cfg.outputDirectory \o <<SLASH>> \o subPath
      created == {SubSeq(outputDir, 1, j) :
                    j \in {n \in 1..Len(outputDir) : outputDir[n] = SLASH}}
  IN IF ~matched
     THEN [threw |-> TRUE, cause |-> "InvalidSourceTree", dirs |-> existing,
           outputDir |-> <<>>, existed |-> FALSE]
     ELSE [threw |-> FALSE, cause |-> "none", dirs |-> existing,
           outputDir |-> outputDir, existed |-> outputDir \in existing]

\* #ensureOutputDirectory without the test of lines 494-496
ensureOutputDirectoryNoMatchTest(cfg, imagePath, existing, writable) ==
  LET prefix == cfg.sourceDirectory \o <<SLASH>>
      matched == startsWith(imagePath, prefix)
      lastSlash == lastIndexOf(imagePath, SLASH)
      subPath == IF lastSlash + 1 > Len(prefix)
                 THEN SubSeq(imagePath, Len(prefix) + 1, lastSlash + 1)
                 ELSE <<>>
      outputDir == cfg.outputDirectory \o <<SLASH>> \o subPath
      created == {SubSeq(outputDir, 1, j) :
                    j \in {n \in 1..Len(outputDir) : outputDir[n] = SLASH}}
  IN IF outputDir \in existing
     THEN [threw |-> FALSE, cause |-> "none", dirs |-> existing,
           outputDir |-> outputDir, existed |-> TRUE]
     ELSE IF writable
     THEN [threw |-> FALSE, cause |-> "none", dirs |-> existing \cup created,
           outputDir |-> outputDir, existed |-> FALSE]
     ELSE [threw |-> TRUE, cause |-> "DirectoryCreateError", dirs |-> existing,
           outputDir |-> outputDir, existed |-> FALSE]

ensureOutputDirectory(cfg, imagePath, existing, writable) ==
  LET prefix == cfg.sourceDirectory \o <<SLASH>>
      matched == startsWith(imagePath, prefix)
      lastSlash == lastIndexOf(imagePath, SLASH)
      subPath == IF lastSlash + 1 > Len(prefix)
                 THEN SubSeq(imagePath, Len(prefix) + 1, lastSlash + 1)
                 ELSE <<>>
      outputDir == cfg.outputDirectory \o <<SLASH>> \o subPath
      created == {SubSeq(outputDir, 1, j) :
                    j \in {n \in 1..Len(outputDir) : outputDir[n] = SLASH}}
  IN IF ~matched
     THEN [threw |-> TRUE, cause |-> "InvalidSourceTree", dirs |-> existing,
           outputDir |-> <<>>, existed |-> FALSE]
     ELSE IF outputDir \in existing
     THEN [threw |-> FALSE, cause |-> "none", dirs |-> existing,
           outputDir |-> outputDir, existed |-> TRUE]
     ELSE IF writable
     THEN [threw |-> FALSE, cause |-> "none", dirs |-> existing \cup created,
           outputDir |-> outputDir, existed |-> FALSE]
     ELSE [threw |-> TRUE, cause |-> "DirectoryCreateError", dirs |-> existing,
           outputDir |-> outputDir, existed |-> FALSE]

\* ---------------------------------------------------------------- metadata
\* #filterMetadata
filterMetadata(metadata) == {kv \in metadata : kv[1] \in keepMetadataKeys}

\* #extractMetadata without the keepMetadata test of line 351
extractMetadataKeepsAll(cfg, fileMetadata, readable) ==
  IF readable
  THEN [threw |-> FALSE, value |-> filterMetadata(fileMetadata)]
  ELSE [threw |-> FALSE, value |-> {}]

\* #extractMetadata without the catch of lines 354-357
extractMetadataThrows(cfg, fileMetadata, readable) ==
  IF readable
  THEN [threw |-> FALSE,
        value |-> IF cfg.keepMetadata THEN filterMetadata(fileMetadata) ELSE {}]
  ELSE [threw |-> TRUE, value |-> {}]

\* #extractMetadata: readable is whether sharp(imagePath).metadata() resolves
extractMetadata(cfg, fileMetadata, readable) ==
  IF readable
  THEN [threw |-> FALSE,
        value |-> IF cfg.keepMetadata THEN filterMetadata(fileMetadata) ELSE {}]
  ELSE [threw |-> FALSE, value |-> {}]

\* ------------------------------------------------------- compression ratio
\* (1 - convertedSize / originalSize) * 100 in IEEE-754 doubles: a finite
\* value is kept as the exact fraction num/den; x/0 is Infinity and 0/0 NaN.
compressionRatio(convertedSize, originalSize) ==
  IF originalSize = 0
  THEN IF convertedSize = 0
       THEN [kind |-> "NaN", num |-> 0, den |-> 1]
       ELSE [kind |-> "-Infinity", num |-> 0, den |-> 1]
  ELSE [kind |-> "finite", num |-> (originalSize - convertedSize) * 100,
        den |-> originalSize]

\* ------------------------------------------------------------------- state
VARIABLES
  config,             \* #config
  tree,               \* the files of the source tree
  writable,           \* whether mkdirSync under outputDirectory succeeds
  dirs,               \* the directories that exist under outputDirectory
  imagePaths,         \* targetImages, the scanner's result
  task,               \* per scanned image: the #convertImage call
  queue,              \* p-limit's queue of images not yet started
  active,             \* the images holding a p-limit slot (activeCount)
  conversionResults,  \* #conversionResults
  runStatus,          \* where #initialize stands, and how it ended
  report,             \* conversion-report.json
  written,            \* the output files written, with the task that wrote
  rejected,           \* some #convertImage promise has rejected
  inFlightAtFailure   \* the images at work when the first promise rejected

vars == <<config, tree, writable, dirs, imagePaths, task, queue, active,
          conversionResults, runStatus, report, written, rejected,
          inFlightAtFailure>>

Images == 1..Len(imagePaths)

NoReport == [status |-> "none", writes |-> 0, totalImages |-> 0,
             details |-> <<>>]

Init ==
  /\ config \in {c \in [sourceDirectory : {Src, SrcSlash},
                          outputDirectory : {Dist, Out},
                          keepMetadata : BOOLEAN,
                          conversionFormats : ConversionFormatsChoices,
                          maxConcurrency : 1..MaxConcurrency,
                          generateReport : BOOLEAN] :
                   [sourceDirectory |-> c.sourceDirectory,
                    outputDirectory |-> c.outputDirectory] \in DirectoryChoices}
  /\ tree \in {t \in SUBSET CandidateSet : Cardinality(t) <= MaxFiles}
  /\ writable \in BOOLEAN
  /\ dirs = {}
  /\ imagePaths = <<>>
  /\ task = <<>>
  /\ queue = <<>>
  /\ active = {}
  /\ conversionResults = <<>>
  /\ runStatus = "constructed"
  /\ report = NoReport
  /\ written = {}
  /\ rejected = FALSE
  /\ inFlightAtFailure = {}

\* trace lists the steps the image has gone through; failedFormat is the
\* target format named by the error that failed it (<<>> when it names none)
PendingTask ==
  [status |-> "pending", cause |-> "none", startedAfterFailure |-> FALSE,
   extractionFailed |-> FALSE, metadata |-> {}, originalSize |-> -1,
   fmt |-> <<>>, trace |-> <<>>, failedFormat |-> <<>>, dirExisted |-> FALSE]

\* the images with a step under way: metadata being read, or an encode running
Working(tk) ==
  {i \in DOMAIN tk :
     \/ tk[i].status = "extracting"
     \/ \E j \in DOMAIN tk[i].fmt : tk[i].fmt[j].status = "encoding"}

\* a #convertImage promise rejects: the first time, note the images at work
Reject(st) ==
  IF st.rejected THEN st
  ELSE [st EXCEPT !.rejected = TRUE, !.inFlight = Working(st.task)]

\* ------------------------------------------------------------- the limiter
\* #convertImage up to its first I/O (lines 307-316): parse the path, ensure
\* the output directory, ask for the metadata.
convertImageStart(paths, st, i) ==
  LET imageInfo == parseImagePath(config.conversionFormats, paths[i])
      ensured == ensureOutputDirectory(config, paths[i], st.dirs, writable)
      started == [st.task[i] EXCEPT !.startedAfterFailure = st.rejected]
  IN IF imageInfo.isNull
     THEN Reject([st EXCEPT !.task[i] = [started EXCEPT
                                            !.status = "failed",
                                            !.trace = @ \o <<"Failed">>,
                                            !.cause = "InvalidImagePath"]])
     ELSE IF ensured.threw
     THEN Reject([st EXCEPT !.task[i] = [started EXCEPT
                                            !.status = "failed",
                                            !.trace = @ \o <<"Failed">>,
                                            !.dirExisted = ensured.existed,
                                            !.cause = ensured.cause]])
     ELSE [st EXCEPT !.task[i] = [started EXCEPT
                                     !.status = "extracting",
                                     !.trace = @ \o <<"Preparing">>,
                                     !.dirExisted = ensured.existed],
                     !.dirs = ensured.dirs,
                     !.active = @ \cup {i}]

\* pLimit(maxConcurrency): while a slot is free the head of the queue is
\* started; an image whose promise rejects at once gives its slot back.
RECURSIVE limitRun(_, _)
limitRun(paths, st) ==
  IF st.queue = <<>> \/ Cardinality(st.active) >= config.maxConcurrency
  THEN st
  ELSE limitRun(paths,
         convertImageStart(paths, [st EXCEPT !.queue = Tail(@)], Head(st.queue)))

\* Promise.all(processingTasks) and what #initialize does after it:
\* reject at the first rejection, else once every image is done go on to
\* #generateConversionReport.
\* #generateConversionReport without the early return of line 443
reportNeverSkipped(results) == FALSE

\* line 443: if (this.#conversionResults.length === 0) return;
reportSkipped(results) == Len(results) = 0

generateConversionReport(results) ==
  [status |-> "writing", writes |-> 1, totalImages |-> Len(results),
   details |-> [n \in 1..Len(results) |->
                  [sourcePath |-> results[n].sourcePath,
                   outputPath |-> results[n].outputPath,
                   format |-> results[n].format,
                   metadata |-> results[n].metadata]]]

\* the state after the promise continuations that follow a settling
Settled(paths, st0, results) ==
  LET st == limitRun(paths, st0)
      allDone == \A i \in DOMAIN st.task : st.task[i].status = "done"
      fails == runStatus \in {"constructed", "processing"} /\ st.rejected
      ends == runStatus \in {"constructed", "processing"} /\ ~st.rejected /\ allDone
      writes == ends /\ config.generateReport /\ ~reportSkipped(results)
  IN /\ task' = st.task
     /\ queue' = st.queue
     /\ active' = st.active
     /\ dirs' = st.dirs
     /\ rejected' = st.rejected
     /\ conversionResults' = results
     /\ runStatus' = IF fails THEN "failed"
                     ELSE IF writes THEN "reporting"
                     ELSE IF ends THEN "success"
                     ELSE IF runStatus = "constructed" THEN "processing"
                     ELSE runStatus
     /\ report' = IF writes
                  THEN [generateConversionReport(results) EXCEPT
                          !.writes = report.writes + 1]
                  ELSE report
     /\ inFlightAtFailure' = st.inFlight

Now == [queue |-> queue, active |-> active, task |-> task, dirs |-> dirs,
        rejected |-> rejected, inFlight |-> inFlightAtFailure]

\* ----------------------------------------------------------------- actions
\* constructor -> #initialize -> #findTargetImages -> #processImages, up to
\* the first await that waits for I/O.  With no image #processImages returns
\* at line 280 and #initialize goes on to the report at once: here the queue
\* is empty, no image is started and Settled ends the run the same way.
\* Once runStatus is "failed" the constructor's catch rethrows (line 256);
\* whether the process then stops or lets the other images go on depends on
\* the runtime, and both are behaviours of this specification.
initialize ==
  /\ runStatus = "constructed"
  /\ LET paths == findTargetImages(config, tree)
     IN /\ imagePaths' = paths
        /\ Settled(paths,
                   [queue |-> [i \in 1..Len(paths) |-> i], active |-> {},
                    task |-> [i \in 1..Len(paths) |-> PendingTask],
                    dirs |-> dirs, rejected |-> FALSE, inFlight |-> {}],
                   conversionResults)
  /\ UNCHANGED <<config, tree, writable, written>>

\* line 335 as an assignment in place of push(...)
pushResultsOverwrites(results, new) == new

\* line 335: this.#conversionResults.push(...conversionResults)
pushResults(results, new) == results \o new

\* lines 316-321 with the size read before the metadata
convertImageStepsSizeFirst == <<"Sizing", "MetadataExtracted", "Encoding">>

\* lines 316-321: await #extractMetadata, then statSync, then the encodes
convertImageSteps == <<"MetadataExtracted", "Sizing", "Encoding">>

\* lines 429-435 calling the encode again in place of the throw
encodeFailedRetries(f) == [f EXCEPT !.status = "encoding", !.calls = @ + 1]

\* lines 429-435: the catch of #convertToFormat logs and throws, once
encodeFailed(f) == [f EXCEPT !.status = "failed"]

\* lines 430-434: the error names the target format and the cause
conversionError(f) == [format |-> f.format, cause |-> "CodecError"]

\* line 481 rethrowing the write error
reportWriteOutcomeRethrows(ok) == IF ok THEN "success" ELSE "failed"

\* lines 477-482: the write error is logged, #initialize resolves
reportWriteOutcome(ok) == "success"

\* #convertToFormat up to its await (lines 383-408): the output path and the
\* original size are computed, then the encode is running
convertToFormatStart(imagePath, format, metadata) ==
  [status |-> "encoding",
   calls |-> 1,
   outputPath |-> createOutputPath(config, imagePath, format),
   format |-> format,
   originalSize |-> FileAt(tree, imagePath).size,
   convertedSize |-> -1,
   compressionRatio |-> compressionRatio(0, 1),
   metadata |-> metadata]

\* sharp(imagePath).metadata() settles: #extractMetadata returns, the size
\* is read, and #convertToFormat is called for every target format
metadataSettled(i, readable) ==
  /\ i \in Images
  /\ task[i].status = "extracting"
  /\ LET file == FileAt(tree, imagePaths[i])
         imageInfo == parseImagePath(config.conversionFormats, imagePaths[i])
         formatSettings == formatSettingsOf(config.conversionFormats,
                                            imageInfo.extension)
         extracted == extractMetadata(config, file.metadata, readable)
         failing == extracted.threw \/ formatSettings = <<>>
         tk == IF failing
               THEN [task[i] EXCEPT !.status = "failed",
                                    !.trace = @ \o <<"Failed">>,
                                    !.extractionFailed = ~readable,
                                    !.cause = IF extracted.threw
                                              THEN "MetadataError"
                                              ELSE "TypeError"]
               ELSE [task[i] EXCEPT
                       !.status = "encoding",
                       !.trace = @ \o convertImageSteps,
                       !.extractionFailed = ~readable,
                       !.metadata = extracted.value,
                       !.originalSize = file.size,
                       !.fmt = [j \in 1..Len(formatSettings) |->
                                  convertToFormatStart(imagePaths[i],
                                     formatSettings[j], extracted.value)]]
         st == [Now EXCEPT !.task[i] = tk,
                           !.active = IF failing THEN @ \ {i} ELSE @]
     IN Settled(imagePaths, IF failing THEN Reject(st) ELSE st,
                conversionResults)
  /\ UNCHANGED <<config, tree, writable, imagePaths, written>>

\* lines 327-331: the record #convertImage keeps for one format
ConversionResult(imagePath, tk, f) ==
  [sourcePath |-> imagePath,
   outputPath |-> f.outputPath,
   originalSize |-> tk.originalSize,
   convertedSize |-> f.convertedSize,
   compressionRatio |-> f.compressionRatio,
   format |-> f.format,
   metadata |-> tk.metadata]

\* processor.toFormat(...).toFile(outputPath) settles for format j of image i
encodeSettled(i, j, encoded, convertedSize) ==
  /\ i \in Images
  /\ j \in DOMAIN task[i].fmt
  /\ task[i].fmt[j].status = "encoding"
  /\ LET f == task[i].fmt[j]
         f2 == IF encoded
               THEN [f EXCEPT !.status = "done",
                              !.convertedSize = convertedSize,
                              !.compressionRatio =
                                 compressionRatio(convertedSize, f.originalSize)]
               ELSE encodeFailed(f)
         tk1 == [task[i] EXCEPT !.fmt[j] = f2]
         waiting == task[i].status = "encoding"
         thrown == f2.status = "failed"
         allDone == \A n \in DOMAIN tk1.fmt : tk1.fmt[n].status = "done"
         tk2 == IF waiting /\ thrown
                THEN [tk1 EXCEPT !.status = "failed",
                                 !.trace = @ \o <<"Failed">>,
                                 !.cause = conversionError(f).cause,
                                 !.failedFormat = conversionError(f).format]
                ELSE IF waiting /\ allDone
                THEN [tk1 EXCEPT !.status = "done", !.trace = @ \o <<"Done">>]
                ELSE tk1
         settles == waiting /\ (thrown \/ allDone)
         results == IF waiting /\ encoded /\ allDone
                    THEN pushResults(conversionResults,
                           [n \in DOMAIN tk1.fmt |->
                              ConversionResult(imagePaths[i], tk1, tk1.fmt[n])])
                    ELSE conversionResults
     IN /\ written' = IF encoded
                      THEN written \cup {[path |-> f.outputPath, image |-> i,
                                          format |-> j]}
                      ELSE written
        /\ LET st == [Now EXCEPT !.task[i] = tk2,
                                  !.active = IF settles THEN @ \ {i} ELSE @]
           IN Settled(imagePaths,
                      IF waiting /\ thrown THEN Reject(st) ELSE st, results)
  /\ UNCHANGED <<config, tree, writable, imagePaths>>

\* fsPromises.writeFile(reportPath, ...) settles (lines 477-482)
reportWriteSettled(ok) ==
  /\ runStatus = "reporting"
  /\ report' = [report EXCEPT !.status = IF ok THEN "written" ELSE "writeFailed"]
  /\ runStatus' = reportWriteOutcome(ok)
  /\ UNCHANGED <<config, tree, writable, dirs, imagePaths, task, queue, active,
                 conversionResults, written, rejected, inFlightAtFailure>>

Next ==
  \/ initialize
  \/ \E i \in Images, readable \in BOOLEAN : metadataSettled(i, readable)
  \/ \E i \in Images : \E j \in DOMAIN task[i].fmt, encoded \in BOOLEAN,
        convertedSize \in 0..MaxConvertedSize :
       encodeSettled(i, j, encoded, convertedSize)
  \/ \E ok \in BOOLEAN : reportWriteSettled(ok)

Spec == Init /\ [][Next]_vars

\* ------------------------------------------------------------------ claims
FormatsOf(i) ==
  LET imageInfo == parseImagePath(config.conversionFormats, imagePaths[i])
  IN IF imageInfo.isNull THEN <<>>
     ELSE formatSettingsOf(config.conversionFormats, imageInfo.extension)

Encoding ==
  {ij \in UNION {{<<i, j>> : j \in DOMAIN task[i].fmt} : i \in Images} :
     task[ij[1]].fmt[ij[2]].status = "encoding"}

AllSettled ==
  /\ runStatus # "constructed"
  /\ queue = <<>>
  /\ Working(task) = {}
  /\ \A i \in Images : task[i].status \in {"done", "failed"}

\* C1: at most maxConcurrency Conversion Tasks (one per source image and
\* target format) are in the Encoding state at the same time.
C1_EncodingWithinMaxConcurrency ==
  Cardinality(Encoding) <= config.maxConcurrency

\* C2: when the run is reported as failed, every task that was in flight at
\* the moment of the failure has settled.
C2_FailureSurfacesAfterInFlightSettle ==
  runStatus = "failed" => inFlightAtFailure = {}

\* C3: no image that was still queued when a task failed is started later.
C3_NoStartAfterFailure ==
  \A i \in Images : ~task[i].startedAfterFailure

\* C4: a scanned path for which parseImagePath returns null is skipped: it
\* never becomes a failed task and never fails the run.
C4_NullParseIsSkipped ==
  \A i \in Images :
    parseImagePath(config.conversionFormats, imagePaths[i]).isNull
      => task[i].status # "failed" /\ runStatus # "failed"

\* C5: in a run with a failed task, once all tasks have settled
\* #conversionResults holds the result of every (image, format) whose encode
\* succeeded.
C5_NoSuccessfulResultLost ==
  (AllSettled /\ rejected) =>
    \A i \in Images : \A j \in DOMAIN task[i].fmt :
      task[i].fmt[j].status = "done" =>
        \E n \in 1..Len(conversionResults) :
          /\ conversionResults[n].sourcePath = imagePaths[i]
          /\ conversionResults[n].format = task[i].fmt[j].format

\* C6: createOutputPath is injective over the (sourcePath, targetFormat)
\* pairs of the scanned images and their configured formats.
C6_CreateOutputPathInjective ==
  \A i1 \in Images, i2 \in Images :
    \A j1 \in DOMAIN FormatsOf(i1), j2 \in DOMAIN FormatsOf(i2) :
      <<imagePaths[i1], FormatsOf(i1)[j1]>> # <<imagePaths[i2], FormatsOf(i2)[j2]>>
        => createOutputPath(config, imagePaths[i1], FormatsOf(i1)[j1])
             # createOutputPath(config, imagePaths[i2], FormatsOf(i2)[j2])

\* C7: a Conversion Task of a 0-byte source image does not fail on the
\* ratio, and its ConversionResult has compressionRatio exactly 0.
C7_ZeroSizeRatioIsZero ==
  \A n \in 1..Len(conversionResults) :
    conversionResults[n].originalSize = 0 =>
      /\ conversionResults[n].compressionRatio.kind = "finite"
      /\ conversionResults[n].compressionRatio.num = 0

\* C8: when the scanner finds no image the run ends as a success, no task is
\* started, nothing is written and no report is generated, also when
\* generateReport is true.
C8_EmptyScanIsSuccessfulNoOp ==
  (runStatus # "constructed" /\ imagePaths = <<>>) =>
     /\ runStatus = "success"
     /\ task = <<>>
     /\ active = {}
     /\ ~rejected
     /\ conversionResults = <<>>
     /\ written = {}
     /\ dirs = {}
     /\ report.status = "none"

C8_Witness ==
  /\ runStatus = "success"
  /\ imagePaths = <<>>
  /\ config.generateReport
  /\ tree # {}

\* C9: with keepMetadata false every ConversionResult in #conversionResults
\* has an empty metadata record.
C9_NoMetadataKept ==
  ~config.keepMetadata =>
    \A n \in 1..Len(conversionResults) : conversionResults[n].metadata = {}

C9_Witness ==
  /\ ~config.keepMetadata
  /\ \E i \in Images :
       /\ task[i].status = "done"
       /\ ~task[i].extractionFailed
       /\ filterMetadata(FileAt(tree, imagePaths[i]).metadata) # {}
       /\ \E n \in 1..Len(conversionResults) :
            conversionResults[n].sourcePath = imagePaths[i]

\* C10: an image whose metadata extraction failed goes on with an empty
\* metadata record; it fails only if one of its encodes failed.
C10_ExtractionFailureIsNotFatal ==
  \A i \in Images :
    task[i].extractionFailed =>
      /\ task[i].metadata = {}
      /\ task[i].status \in {"encoding", "done", "failed"}
      /\ task[i].fmt # <<>>
      /\ task[i].cause # "MetadataError"
      /\ task[i].status = "failed" =>
           \E j \in DOMAIN task[i].fmt : task[i].fmt[j].status = "failed"
      /\ (runStatus = "failed" =>
           \E k \in Images : task[k].status = "failed"
                             /\ task[k].cause # "MetadataError")

C10_Witness ==
  /\ config.keepMetadata
  /\ runStatus = "success"
  /\ \E i \in Images :
       /\ task[i].extractionFailed
       /\ task[i].status = "done"
       /\ filterMetadata(FileAt(tree, imagePaths[i]).metadata) # {}
       /\ \E n \in 1..Len(conversionResults) :
            /\ conversionResults[n].sourcePath = imagePaths[i]
            /\ conversionResults[n].metadata = {}

\* the pairs (scanned image, configured target format) of the run
Pairs ==
  UNION {{<<imagePaths[i], FormatsOf(i)[j]>> : j \in DOMAIN FormatsOf(i)} :
           i \in Images}

\* the directory part of a path, with its trailing "/" (<<>> when none)
DirOf(p) == SubSeq(p, 1, lastIndexOf(p, SLASH) + 1)

UnderSourceDirectory(p) == startsWith(p, config.sourceDirectory \o <<SLASH>>)

Parses(p) == ~parseImagePath(config.conversionFormats, p).isNull

\* C11: when every task succeeded and the report write fails, the run still
\* ends as a success and #conversionResults is what the report was made of.
C11_ReportWriteFailureIsNotFatal ==
  report.status = "writeFailed" =>
     /\ runStatus = "success"
     /\ ~rejected
     /\ \A i \in Images : task[i].status = "done"
     /\ Len(conversionResults) = report.totalImages
     /\ \A n \in 1..Len(conversionResults) :
          /\ report.details[n].sourcePath = conversionResults[n].sourcePath
          /\ report.details[n].outputPath = conversionResults[n].outputPath

C11_Witness ==
  /\ report.status = "writeFailed"
  /\ runStatus = "success"
  /\ Len(conversionResults) >= 2

\* C12: the directory that contains a task's output path exists from the
\* moment its encode starts, hence before its output file is written.
C12_DirectoryEnsuredBeforeEncode ==
  /\ \A i \in Images : \A j \in DOMAIN task[i].fmt :
       DirOf(task[i].fmt[j].outputPath) \in dirs \cup {<<>>}
  /\ \A w \in written : DirOf(w.path) \in dirs \cup {<<>>}

C12_Witness ==
  \E w \in written :
    /\ DirOf(w.path) = config.outputDirectory \o <<SLASH, "s", "u", "b", SLASH>>
    /\ DirOf(w.path) \in dirs

\* C13: ensuring a directory that exists, or that another running task has
\* just created, never fails: a directory failure is a refused creation of
\* a directory that did not exist.
C13_EnsureExistingNeverFails ==
  \A i \in Images :
    /\ task[i].cause = "DirectoryCreateError" => ~writable /\ ~task[i].dirExisted
    /\ task[i].dirExisted => task[i].cause \notin {"DirectoryCreateError",
                                                   "InvalidSourceTree"}

C13_Witness ==
  \E i1 \in Images, i2 \in Images :
    /\ i1 # i2
    /\ {i1, i2} \subseteq active
    /\ DirOf(imagePaths[i1]) = DirOf(imagePaths[i2])
    /\ ~task[i1].dirExisted
    /\ task[i2].dirExisted
    /\ task[i1].status = "extracting"
    /\ task[i2].status = "extracting"

StepsBefore(order, trace) ==
  \/ \E n \in 0..Len(order) : trace = SubSeq(order, 1, n)
  \/ \E n \in 0..(Len(order) - 1) : trace = SubSeq(order, 1, n) \o <<"Failed">>

\* C14 as stated: the steps of a task are Preparing, Sizing,
\* MetadataExtracted, Encoding, Done in this order, or Failed after some of
\* them; the size is read before the metadata is extracted.
C14_SizeBeforeMetadata ==
  \A i \in Images :
    /\ StepsBefore(<<"Preparing", "Sizing", "MetadataExtracted", "Encoding",
                     "Done">>, task[i].trace)
    /\ task[i].status = "extracting" => task[i].originalSize # -1

\* C14 amended: the steps of a task are Preparing, MetadataExtracted, Sizing,
\* Encoding, Done in this order, or Failed after some of them; a task that
\* was never started is not Failed; the metadata is extracted before the
\* size is read and both happen before an encode starts.
C14_MetadataBeforeSize ==
  \A i \in Images :
    /\ StepsBefore(<<"Preparing", "MetadataExtracted", "Sizing", "Encoding",
                     "Done">>, task[i].trace)
    /\ task[i].status = "pending" <=> task[i].trace = <<>>
    /\ task[i].status = "pending" => \E n \in 1..Len(queue) : queue[n] = i
    /\ task[i].status = "extracting" =>
         task[i].originalSize = -1 /\ task[i].fmt = <<>>
    /\ task[i].fmt # <<>> =>
         /\ task[i].originalSize = FileAt(tree, imagePaths[i]).size
         /\ task[i].status \in {"encoding", "done", "failed"}

C14_Witness ==
  \E i \in Images :
    /\ task[i].status = "done"
    /\ task[i].trace = <<"Preparing", "MetadataExtracted", "Sizing", "Encoding",
                         "Done">>

\* the path the claim C15 describes: outputDirectory, the relative
\* subdirectory, the base name without its extension, "." and the format
ExpectedOutputPath(cfg, sourcePath, targetFormat) ==
  LET relative == SubSeq(sourcePath, Len(cfg.sourceDirectory) + 2,
                         Len(sourcePath))
      lastDot == lastIndexOf(relative, DOT)
      stem == IF lastDot < 0 THEN relative ELSE SubSeq(relative, 1, lastDot)
  IN cfg.outputDirectory \o <<SLASH>> \o stem \o <<DOT>> \o targetFormat

\* C15: for every configuration createOutputPath gives outputDirectory, the
\* unchanged relative subdirectory, the base name without its extension,
\* "." and the target format.
C15_CreateOutputPathMirrorsTree ==
  \A i \in Images : \A j \in DOMAIN FormatsOf(i) :
    UnderSourceDirectory(imagePaths[i]) =>
      createOutputPath(config, imagePaths[i], FormatsOf(i)[j])
        = ExpectedOutputPath(config, imagePaths[i], FormatsOf(i)[j])

NoRetry ==
  \A i \in Images :
    /\ \A j \in DOMAIN task[i].fmt :
         /\ task[i].fmt[j].calls <= 1
         /\ task[i].fmt[j].status = "failed" => task[i].status = "failed"
    /\ task[i].status = "failed" =>
         /\ task[i].trace[Len(task[i].trace)] = "Failed"
         /\ task[i].cause # "none"
         /\ i \notin active

C18_ReportOnceAndComplete ==
  /\ report.writes <= 1
  /\ report.status # "none" =>
       /\ report.writes = 1
       /\ \A i \in Images : task[i].status = "done"
       /\ ~rejected
       /\ Working(task) = {}
       /\ queue = <<>>
       /\ Len(report.details) = Cardinality(Pairs)
       /\ \A pf \in Pairs :
            Cardinality({n \in 1..Len(report.details) :
                           /\ report.details[n].sourcePath = pf[1]
                           /\ report.details[n].format = pf[2]}) = 1

C18_Witness ==
  /\ report.status = "written"
  /\ Len(imagePaths) = 2
  /\ Cardinality(Pairs) >= 3

MaxFormatsPerExtension ==
  SetMax({Len(config.conversionFormats[n].formats) :
            n \in 1..Len(config.conversionFormats)})

\* C19: at most maxConcurrency images hold a slot, and the encodes running
\* at the same time number at most maxConcurrency times the largest number
\* of target formats of one extension.
C19_EncodesWithinSlotsTimesFormats ==
  /\ Cardinality(active) <= config.maxConcurrency
  /\ Cardinality(Encoding) <= config.maxConcurrency * MaxFormatsPerExtension

\* ----------------------------------------------- runs without I/O failure
\* Every directory creation, metadata read and encode succeeds; the event
\* loop runs the callback of every I/O that has completed.
InitLive == Init /\ writable

NextLive ==
  \/ initialize
  \/ \E i \in Images : metadataSettled(i, TRUE)
  \/ \E i \in Images : \E j \in DOMAIN task[i].fmt,
        convertedSize \in 0..MaxConvertedSize :
       encodeSettled(i, j, TRUE, convertedSize)
  \/ \E ok \in BOOLEAN : reportWriteSettled(ok)

SpecLive == InitLive /\ [][NextLive]_vars /\ WF_vars(NextLive)

\* C20: when no external call fails, every image gets a slot, every
\* (image, format) task reaches Done and the run ends as a success.  A run
\* of SpecLive takes finitely many steps, so under its fairness this is:
\* once nothing is waiting for I/O, nothing is left in the queue, every task
\* is Done and the run is a success.
C20_EveryTaskDoneAndRunSucceeds ==
  (runStatus \notin {"constructed", "reporting"} /\ Working(task) = {}) =>
     /\ runStatus = "success"
     /\ queue = <<>>
     /\ active = {}
     /\ \A i \in Images : task[i].status = "done"
====
